---- MODULE Spec2Model ----
(***************************************************************************)
(* CLAMBA: synthesis core.  Response parsing, process-record validation,   *)
(* dependency-graph construction and cycle elimination, identifier         *)
(* sanitization and automaton generation.                                  *)
(*                                                                         *)
(* Text is a sequence of code points; a code point is a one-character      *)
(* string, except the accented letters and the combining mark, which are   *)
(* named ("e_acute", "E_acute", "combining_acute").                        *)
(*                                                                         *)
(* The specifications of the module:                                       *)
(*   SpecSan    IDSanitizer.sanitize applied once and twice to a text      *)
(*   SpecGraph  has_cycles / remove_cycles / topological_sort on a graph   *)
(*   SpecAuto   Automate.from_process on one Process                       *)
(*   Spec       the pipeline of CLAMBAAnalyzer.analyze_contract            *)
(*   SpecDeps   ProcessDetector.analyze_dependencies on one response       *)
(*   SpecBatch  the loop of CLAMBAAnalyzer.analyze_multiple_contracts      *)
(*   SpecExtract  the bracket matchers _extract_json_array / _object       *)
(*   SpecSynth  _generate_automatons called twice on the same arguments    *)
(*   SpecProcess  a Process built from a record, then add_step/remove_step *)
(*   SpecQuery  the retry loop of OllamaProvider.query                     *)
(*   SpecQueryFair  SpecQuery where the loop is never left half-way        *)
(***************************************************************************)
EXTENDS Integers, Sequences, FiniteSets, TLC

VARIABLES
    \* IDSanitizer
    s_pc,            \* "text" | "once" | "twice"
    s_text,          \* the text given to sanitize
    s_max,           \* IDSanitizer.max_length
    s_out1,          \* sanitize(text)
    s_out2,          \* sanitize(sanitize(text))
    \* graph utilities
    g_pc,            \* "build" | "has_cycles" | "remove_cycles" | "topological_sort"
    g_graph,         \* the dict given to the function: [keys, deps]
    g_out,           \* what the function returned
    \* Automate.from_process
    a_pc,            \* "process" | "built"
    a_process,       \* the Process: [id, steps]
    a_deps,          \* the dependency list given to from_process
    a_max,           \* max_length of the sanitizer given to from_process
    a_automate,      \* the Automate built
    \* analyze_contract pipeline
    pc,              \* position of analyze_contract
    cycle_detection, \* config.analysis.cycle_detection
    response,        \* the decoded detection response
    processes,       \* process_result.processes
    dep_kind,        \* what the dependency response was: see DepResponses
    parsed_deps,     \* what _parse_dependencies_response returned: [keys, deps]
    dependencies,    \* the map returned by analyze_dependencies: [keys, deps]
    contract,        \* contract.automates
    errors,          \* the list returned by validate_contract
    raised,          \* the exception that ended analyze_contract, or None
    \* ProcessDetector.analyze_dependencies
    d_pc,            \* "query" | "returned" | "raised"
    d_processes,     \* the process list given
    d_detect,        \* config.analysis.cycle_detection
    d_response,      \* the decoded response of the query
    d_parsed,        \* what _parse_dependencies_response returned: [keys, deps]
    d_out,           \* the map returned: [keys, deps]
    \* CLAMBAAnalyzer.analyze_multiple_contracts
    b_pc,            \* "analyze" | "save" | "finished"
    b_docs,          \* per document, how analyze_contract ends: "returns" | "raises"
    b_format,        \* config.output.output_format
    b_i,             \* the document of the current iteration, from 1
    b_results,       \* results: the documents whose ContractResult was appended
    b_failed,        \* the documents the except branch logged as failed
    b_files,         \* the documents whose output file exists
    \* ProcessDetector._extract_json_array / _extract_json_object
    x_pc,            \* "text" | "extracted"
    x_text,          \* the response text
    x_pair,          \* "array" | "object": which of the two functions is called
    x_out,           \* what it returned: [found, span], found FALSE for None
    \* CLAMBAAnalyzer._generate_automatons called twice on the same arguments
    y_pc,            \* "inputs" | "first" | "second"
    y_processes,     \* processes
    y_deps,          \* dependencies: [keys, deps]
    y_name,          \* contract_name
    y_first,         \* the Contract of the first call: [id, created_at, automates]
    y_second,        \* the Contract of the second call
    \* Process.from_ai_response, add_step, remove_step
    p_pc,            \* "record" | "built" | "rejected"
    p_max,           \* config.analysis.max_steps_per_process
    p_record,        \* the steps of the raw record
    p_steps,         \* Process.steps
    p_detailed,      \* Process.detailed_steps: [id, name, order] each
    p_calls,         \* the add_step and remove_step calls made on the Process
    \* OllamaProvider.query
    q_pc,            \* "attempt" | "returned" | "raised"
    q_attempt,       \* the loop variable attempt
    q_delay,         \* retry_delay, in tenths of a second
    q_log,           \* the outcome of each HTTP request made, in order
    q_result,        \* the text returned, or None
    q_raised         \* the exception raised, or None

sanVars   == <<s_pc, s_text, s_max, s_out1, s_out2>>
graphVars == <<g_pc, g_graph, g_out>>
autoVars  == <<a_pc, a_process, a_deps, a_max, a_automate>>
pipeVars  == <<pc, cycle_detection, response, processes, dep_kind, parsed_deps,
               dependencies, contract, errors, raised>>
depVars   == <<d_pc, d_processes, d_detect, d_response, d_parsed, d_out>>
batchVars == <<b_pc, b_docs, b_format, b_i, b_results, b_failed, b_files>>
extVars   == <<x_pc, x_text, x_pair, x_out>>
synthVars == <<y_pc, y_processes, y_deps, y_name, y_first, y_second>>
procVars  == <<p_pc, p_max, p_record, p_steps, p_detailed, p_calls>>
queryVars == <<q_pc, q_attempt, q_delay, q_log, q_result, q_raised>>
vars      == <<sanVars, graphVars, autoVars, pipeVars, depVars, batchVars, extVars,
               synthVars, procVars, queryVars>>

None == "None"

(***************************************************************************)
(* Bounds of the model.                                                    *)
(***************************************************************************)
MaxTextLen     == 3   \* longest text given to sanitize in SpecSan
SmallMaxLength == 3   \* max_length ranges over 0..SmallMaxLength and the default
NumNodes       == 3   \* nodes of a graph in SpecGraph
MaxEdges       == 3   \* total length of the dependency lists of that graph
MaxSteps       == 2   \* longest enumerated step list (besides the 10 and 11 step lists)
MaxDepList     == 2   \* longest dependency list given to from_process in SpecAuto
MaxRecords     == 2   \* records of a detection response in Spec
MaxCandidates  == 2   \* total number of ids listed by a dependency response in Spec
MaxDocs        == 3   \* documents of a batch in SpecBatch
MaxBracketLen  == 4   \* longest response text given to the extractors in SpecExtract
MaxClock       == 2   \* the clock reads second 0..MaxClock in SpecSynth
MaxCalls       == 2   \* add_step / remove_step calls made on one Process

(***************************************************************************)
(* Program constants.                                                      *)
(***************************************************************************)
DefaultMaxLength == 50   \* IDSanitizer.__init__(max_length=50)
MaxStepsLimit    == 10   \* Process.validate_steps: len(v) > 10
DefaultMaxStepsPerProcess == 7   \* AnalysisConfig.max_steps_per_process
MaxRetries       == 3    \* get_retry_settings: max_retries
RetryDelay       == 20   \* get_retry_settings: retry_delay 2.0, in tenths
BackoffFactor    == 15   \* get_retry_settings: backoff_factor 1.5, in tenths

(***************************************************************************)
(* Code points.                                                            *)
(***************************************************************************)
LowerLetters == <<"a","b","c","d","e","f","g","h","i","j","k","l","m",
                  "n","o","p","q","r","s","t","u","v","w","x","y","z">>
UpperLetters == <<"A","B","C","D","E","F","G","H","I","J","K","L","M",
                  "N","O","P","Q","R","S","T","U","V","W","X","Y","Z">>
Digits == {"0","1","2","3","4","5","6","7","8","9"}

Range(s) == {s[i] : i \in 1..Len(s)}

\* unicodedata.category(c) == 'Mn'
IsMn(c) == c = "combining_acute"

\* unicodedata.normalize('NFD', c) for one code point
Decompose(c) ==
    IF c = "e_acute" THEN <<"e", "combining_acute">>
    ELSE IF c = "E_acute" THEN <<"E", "combining_acute">>
    ELSE <<c>>

\* str.lower() for one code point
ToLower(c) ==
    IF c \in Range(UpperLetters)
    THEN LowerLetters[CHOOSE i \in 1..Len(UpperLetters) : UpperLetters[i] = c]
    ELSE IF c = "E_acute" THEN "e_acute"
    ELSE c

\* the class [a-z0-9] of the regular expressions
IsAlnum(c) == c \in Range(LowerLetters) \cup Digits

(***************************************************************************)
(* IDSanitizer.sanitize, step by step.                                     *)
(***************************************************************************)
RECURSIVE NFD(_)
NFD(t) == IF t = <<>> THEN <<>> ELSE Decompose(Head(t)) \o NFD(Tail(t))

DropMn(t) == SelectSeq(t, LAMBDA c : ~IsMn(c))

Lower(t) == [i \in 1..Len(t) |-> ToLower(t[i])]

\* t without its leading code points that are outside [a-z0-9]
RECURSIVE SkipNonAlnum(_)
SkipNonAlnum(t) ==
    IF t = <<>> \/ IsAlnum(Head(t)) THEN t ELSE SkipNonAlnum(Tail(t))

\* re.sub(r'[^a-z0-9]+', '-', t)
RECURSIVE SubNonAlnum(_)
SubNonAlnum(t) ==
    IF t = <<>> THEN <<>>
    ELSE IF IsAlnum(Head(t)) THEN <<Head(t)>> \o SubNonAlnum(Tail(t))
    ELSE <<"-">> \o SubNonAlnum(SkipNonAlnum(Tail(t)))

RECURSIVE LStrip(_)
LStrip(t) == IF t # <<>> /\ Head(t) = "-" THEN LStrip(Tail(t)) ELSE t

\* re.sub(r'-+', '-', t)
RECURSIVE SubHyphens(_)
SubHyphens(t) ==
    IF t = <<>> THEN <<>>
    ELSE IF Head(t) = "-" THEN <<"-">> \o SubHyphens(LStrip(Tail(t)))
    ELSE <<Head(t)>> \o SubHyphens(Tail(t))

RECURSIVE RStrip(_)
RStrip(t) ==
    IF t # <<>> /\ t[Len(t)] = "-" THEN RStrip(SubSeq(t, 1, Len(t) - 1)) ELSE t

Strip(t) == RStrip(LStrip(t))

\* text[:max_length].rstrip('-') when len(text) > max_length
Truncate(t, max_length) ==
    IF Len(t) > max_length THEN RStrip(SubSeq(t, 1, max_length)) ELSE t

DefaultId   == <<"d","e","f","a","u","l","t","_","i","d">>
SanitizedId == <<"s","a","n","i","t","i","z","e","d","-","i","d">>

sanitize(t, max_length) ==
    IF t = <<>> THEN DefaultId
    ELSE LET normalized == DropMn(NFD(t))
             lowered    == Lower(normalized)
             hyphened   == SubNonAlnum(lowered)
             cleaned    == Strip(SubHyphens(hyphened))
             limited    == Truncate(cleaned, max_length)
         IN  IF limited = <<>> THEN SanitizedId ELSE limited

\* step.replace('_', ' ')
ReplaceUnderscore(t) == [i \in 1..Len(t) |-> IF t[i] = "_" THEN " " ELSE t[i]]

sanitize_step_name(step, max_length) == sanitize(ReplaceUnderscore(step), max_length)

\* validate_id: non-empty, only a-z, 0-9 and hyphen, no hyphen at either
\* end, no two hyphens in a row
validate_id(id_string) ==
    /\ id_string # <<>>
    /\ \A i \in 1..Len(id_string) : IsAlnum(id_string[i]) \/ id_string[i] = "-"
    /\ ~(Head(id_string) = "-" \/ id_string[Len(id_string)] = "-")
    /\ ~\E i \in 1..(Len(id_string) - 1) : id_string[i] = "-" /\ id_string[i + 1] = "-"

(***************************************************************************)
(* SpecSan: sanitize applied to a text, then to its own result.            *)
(***************************************************************************)
InputChars == {"a", "B", "e_acute", "1", " ", "-", "_", "!"}

RECURSIVE SeqsUpTo(_, _)
SeqsUpTo(S, n) ==
    IF n = 0 THEN {<<>>}
    ELSE LET shorter == SeqsUpTo(S, n - 1)
         IN  shorter \cup {Append(q, x) : q \in shorter, x \in S}

Texts == SeqsUpTo(InputChars, MaxTextLen)

MaxLengths == (0..SmallMaxLength) \cup {DefaultMaxLength}

SanIdle ==
    /\ s_pc = "idle" /\ s_text = <<>> /\ s_max = 0
    /\ s_out1 = None /\ s_out2 = None

SanInit ==
    /\ s_pc = "text"
    /\ s_text \in Texts
    /\ s_max \in MaxLengths
    /\ s_out1 = None
    /\ s_out2 = None

Sanitize ==
    /\ s_pc = "text"
    /\ s_out1' = sanitize(s_text, s_max)
    /\ s_pc' = "once"
    /\ UNCHANGED <<s_text, s_max, s_out2>>

SanitizeAgain ==
    /\ s_pc = "once"
    /\ s_out2' = sanitize(s_out1, s_max)
    /\ s_pc' = "twice"
    /\ UNCHANGED <<s_text, s_max, s_out1>>

(***************************************************************************)
(* utils/graph.py.  A graph is a dict from node to the list of the nodes   *)
(* it depends on: keys holds the dict's keys in iteration order, deps the  *)
(* list of each key.                                                       *)
(***************************************************************************)
Keys(graph) == Range(graph.keys)

\* graph.get(node, [])
Get(graph, node) == IF node \in Keys(graph) THEN graph.deps[node] ELSE <<>>

\* the inner dfs of has_cycles; visited and rec_stack are the mutated sets
RECURSIVE dfs(_, _, _, _)
RECURSIVE dfs_neighbors(_, _, _, _, _)
\* the dfs that leaves a node on rec_stack when its exploration ends
dfs_keeping_stack(graph, node, visited, rec_stack) ==
    dfs_neighbors(graph, Get(graph, node), 1,
                  visited \cup {node}, rec_stack \cup {node})

dfs(graph, node, visited, rec_stack) ==
    LET r == dfs_neighbors(graph, Get(graph, node), 1,
                           visited \cup {node}, rec_stack \cup {node})
    IN  IF r.found THEN r
        ELSE [found |-> FALSE, visited |-> r.visited,
              rec_stack |-> r.rec_stack \ {node}]

dfs_neighbors(graph, neighbors, i, visited, rec_stack) ==
    IF i > Len(neighbors)
    THEN [found |-> FALSE, visited |-> visited, rec_stack |-> rec_stack]
    ELSE LET neighbor == neighbors[i] IN
         IF neighbor \notin visited
         THEN LET r == dfs(graph, neighbor, visited, rec_stack)
              IN  IF r.found THEN r
                  ELSE dfs_neighbors(graph, neighbors, i + 1, r.visited, r.rec_stack)
         ELSE IF neighbor \in rec_stack
         THEN [found |-> TRUE, visited |-> visited, rec_stack |-> rec_stack]
         ELSE dfs_neighbors(graph, neighbors, i + 1, visited, rec_stack)

\* the loop over the nodes of has_cycles, from the i-th key on
RECURSIVE has_cycles_from(_, _, _)
has_cycles_from(graph, i, visited) ==
    IF i > Len(graph.keys) THEN FALSE
    ELSE LET node == graph.keys[i] IN
         IF node \notin visited
         THEN LET r == dfs(graph, node, visited, {})
              IN  r.found \/ has_cycles_from(graph, i + 1, r.visited)
         ELSE has_cycles_from(graph, i + 1, visited)

has_cycles(graph) == has_cycles_from(graph, 1, {})

\* the longest list of the dict
MaxListLen(graph) ==
    IF Keys(graph) = {} THEN 0
    ELSE CHOOSE m \in {Len(graph.deps[k]) : k \in Keys(graph)} :
            \A k \in Keys(graph) : Len(graph.deps[k]) <= m

\* the total length of the lists of the first i keys
RECURSIVE SumLen(_, _)
SumLen(graph, i) ==
    IF i = 0 THEN 0 ELSE Len(graph.deps[graph.keys[i]]) + SumLen(graph, i - 1)

\* {node: [] for node in graph}
EmptyOver(graph) == [keys |-> graph.keys, deps |-> [n \in Keys(graph) |-> <<>>]]

\* the edge put at the head of the list
WithEdgeFirst(graph, node, dep) ==
    [graph EXCEPT !.deps[node] = <<dep>> \o @]

\* temp_graph[node].append(dep)
WithEdge(graph, node, dep) ==
    [graph EXCEPT !.deps[node] = Append(@, dep)]

\* the test made on the graph built so far, without the edge
keeps_edge_unchecked(clean_graph, node, dep) == ~has_cycles(clean_graph)

\* the test that keeps at most one edge per node
keeps_edge_single(clean_graph, node, dep) ==
    /\ clean_graph.deps[node] = <<>>
    /\ ~has_cycles([clean_graph EXCEPT !.deps[node] = Append(@, dep)])

\* the test of remove_cycles on one edge: keep it when the graph built so
\* far, with the edge added, has no cycle
keeps_edge(clean_graph, node, dep) == ~has_cycles(WithEdge(clean_graph, node, dep))

\* the two loops of remove_cycles, from the j-th dependency of the i-th key on
RECURSIVE remove_cycles_from(_, _, _, _)
remove_cycles_from(graph, i, j, clean_graph) ==
    IF i > Len(graph.keys) THEN clean_graph
    ELSE LET node == graph.keys[i] IN
         IF j > Len(graph.deps[node])
         THEN remove_cycles_from(graph, i + 1, 1, clean_graph)
         ELSE LET dep == graph.deps[node][j] IN
              remove_cycles_from(graph, i, j + 1,
                  IF keeps_edge(clean_graph, node, dep)
                  THEN WithEdge(clean_graph, node, dep)
                  ELSE clean_graph)

remove_cycles(graph) == remove_cycles_from(graph, 1, 1, EmptyOver(graph))

\* ProcessDetector._remove_cycles
detector_remove_cycles(deps) ==
    IF ~has_cycles(deps) THEN deps ELSE remove_cycles(deps)

\* in_degree of topological_sort: one count per listing of a key
in_degree_of(graph) ==
    [n \in Keys(graph) |->
        Cardinality({e \in {<<k, i>> : k \in Keys(graph), i \in 1..MaxListLen(graph)} :
                        /\ e[2] <= Len(graph.deps[e[1]])
                        /\ graph.deps[e[1]][e[2]] = n})]

\* the inner for loop of topological_sort over graph.items(), from the i-th key on
RECURSIVE ts_update(_, _, _, _, _)
ts_update(graph, node, i, in_degree, queue) ==
    IF i > Len(graph.keys) THEN [in_degree |-> in_degree, queue |-> queue]
    ELSE LET other_node == graph.keys[i] IN
         IF node \in Range(graph.deps[other_node])
         THEN LET d == in_degree[other_node] - 1 IN
              ts_update(graph, node, i + 1,
                        [in_degree EXCEPT ![other_node] = d],
                        IF d = 0 THEN Append(queue, other_node) ELSE queue)
         ELSE ts_update(graph, node, i + 1, in_degree, queue)

\* the while loop of topological_sort
RECURSIVE ts_while(_, _, _, _)
ts_while(graph, in_degree, queue, result) ==
    IF queue = <<>> THEN result
    ELSE LET node == Head(queue)
             u    == ts_update(graph, node, 1, in_degree, Tail(queue))
         IN  ts_while(graph, u.in_degree, u.queue, Append(result, node))

\* the sort without the has_cycles check that precedes it
topological_sort_unchecked(graph) ==
    LET in_degree == in_degree_of(graph)
        queue     == SelectSeq(graph.keys, LAMBDA n : in_degree[n] = 0)
    IN  [raised |-> None, result |-> ts_while(graph, in_degree, queue, <<>>)]

\* topological_sort: the list returned, or the exception raised
topological_sort(graph) ==
    IF has_cycles(graph) THEN [raised |-> "ValueError", result |-> <<>>]
    ELSE LET in_degree == in_degree_of(graph)
             queue     == SelectSeq(graph.keys, LAMBDA n : in_degree[n] = 0)
         IN  [raised |-> None, result |-> ts_while(graph, in_degree, queue, <<>>)]

(***************************************************************************)
(* SpecGraph: a graph is built key by key and edge by edge, then one of    *)
(* the functions of utils/graph.py is applied to it.  Keys are 1, 2, ...   *)
(* in iteration order; a list may name any node of 1..NumNodes, a key or   *)
(* not, itself included, more than once.                                   *)
(***************************************************************************)
Nodes == 1..NumNodes

NumEdges(graph) == SumLen(graph, Len(graph.keys))

GraphIdle ==
    /\ g_pc = "idle" /\ g_graph = [keys |-> <<>>, deps |-> <<>>] /\ g_out = None

GraphInit ==
    /\ g_pc = "build"
    /\ g_graph = [keys |-> <<>>, deps |-> <<>>]
    /\ g_out = None

AddNode ==
    /\ g_pc = "build"
    /\ Len(g_graph.keys) < NumNodes
    /\ LET n == Len(g_graph.keys) + 1 IN
       g_graph' = [keys |-> Append(g_graph.keys, n),
                   deps |-> [k \in 1..n |-> IF k = n THEN <<>> ELSE g_graph.deps[k]]]
    /\ UNCHANGED <<g_pc, g_out>>

AddDep ==
    /\ g_pc = "build"
    /\ NumEdges(g_graph) < MaxEdges
    /\ \E node \in Keys(g_graph), dep \in Nodes :
          g_graph' = WithEdge(g_graph, node, dep)
    /\ UNCHANGED <<g_pc, g_out>>

RunHasCycles ==
    /\ g_pc = "build"
    /\ g_out' = has_cycles(g_graph)
    /\ g_pc' = "has_cycles"
    /\ UNCHANGED g_graph

RunRemoveCycles ==
    /\ g_pc = "build"
    /\ g_out' = remove_cycles(g_graph)
    /\ g_pc' = "remove_cycles"
    /\ UNCHANGED g_graph

RunDetectorRemoveCycles ==
    /\ g_pc = "build"
    /\ g_out' = detector_remove_cycles(g_graph)
    /\ g_pc' = "_remove_cycles"
    /\ UNCHANGED g_graph

RunTopologicalSort ==
    /\ g_pc = "build"
    /\ g_out' = topological_sort(g_graph)
    /\ g_pc' = "topological_sort"
    /\ UNCHANGED g_graph

(***************************************************************************)
(* utils/sanitizer.py and models/contract.py: the automaton of a Process.  *)
(* A State is modelled by its id and a Transition by its id, source,       *)
(* target and automata_dependencies: labels, positions and markers are     *)
(* read by no operation modelled here.                                     *)
(***************************************************************************)
StateInitial   == <<"s","t","a","t","e","-","i","n","i","t","i","a","l">>
StateCompleted == <<"s","t","a","t","e","-","c","o","m","p","l","e","t","e","d">>
StatePrefix    == <<"s","t","a","t","e","-">>
EdgePrefix     == <<"e","d","g","e","-">>
EdgeInitialTo  == <<"e","d","g","e","-","i","n","i","t","i","a","l","-","t","o","-">>
DashToDash     == <<"-","t","o","-">>
ToCompleted    == <<"-","t","o","-","c","o","m","p","l","e","t","e","d">>

\* the step states named by the labels as given, not by their sanitized form
create_states_raw_labels(steps, max_length) ==
    <<[id |-> StateInitial]>>
    \o [i \in 1..Len(steps) |-> [id |-> StatePrefix \o steps[i]]]
    \o <<[id |-> StateCompleted]>>

create_states_from_steps(steps, max_length) ==
    <<[id |-> StateInitial]>>
    \o [i \in 1..Len(steps) |->
           [id |-> StatePrefix \o sanitize_step_name(steps[i], max_length)]]
    \o <<[id |-> StateCompleted]>>

\* the ids as they are given
sanitize_none(ids, max_length) == ids

\* [sanitizer.sanitize(dep) for dep in dependencies]
sanitize_all(ids, max_length) == [i \in 1..Len(ids) |-> sanitize(ids[i], max_length)]

\* the final transition leaving the first step, not the last
create_transitions_final_from_first(steps, deps, max_length) ==
    IF steps = <<>> THEN <<>>
    ELSE LET name(i) == sanitize_step_name(steps[i], max_length)
             n       == Len(steps)
         IN  <<[id     |-> EdgeInitialTo \o name(1),
                source |-> StateInitial,
                target |-> StatePrefix \o name(1),
                automata_dependencies |-> [i \in 1..Len(deps) |-> sanitize(deps[i], max_length)]]>>
             \o [i \in 1..(n - 1) |->
                    [id     |-> EdgePrefix \o name(i) \o DashToDash \o name(i + 1),
                     source |-> StatePrefix \o name(i),
                     target |-> StatePrefix \o name(i + 1),
                     automata_dependencies |-> <<>>]]
             \o <<[id     |-> EdgePrefix \o name(1) \o ToCompleted,
                   source |-> StatePrefix \o name(1),
                   target |-> StateCompleted,
                   automata_dependencies |-> <<>>]>>

\* the dependency list repeated on every transition
create_transitions_deps_everywhere(steps, deps, max_length) ==
    IF steps = <<>> THEN <<>>
    ELSE LET name(i) == sanitize_step_name(steps[i], max_length)
             n       == Len(steps)
             sdeps   == [i \in 1..Len(deps) |-> sanitize(deps[i], max_length)]
         IN  <<[id     |-> EdgeInitialTo \o name(1),
                source |-> StateInitial,
                target |-> StatePrefix \o name(1),
                automata_dependencies |-> sdeps]>>
             \o [i \in 1..(n - 1) |->
                    [id     |-> EdgePrefix \o name(i) \o DashToDash \o name(i + 1),
                     source |-> StatePrefix \o name(i),
                     target |-> StatePrefix \o name(i + 1),
                     automata_dependencies |-> sdeps]]
             \o <<[id     |-> EdgePrefix \o name(n) \o ToCompleted,
                   source |-> StatePrefix \o name(n),
                   target |-> StateCompleted,
                   automata_dependencies |-> sdeps]>>

create_transitions_from_steps(steps, deps, max_length) ==
    IF steps = <<>> THEN <<>>
    ELSE LET name(i) == sanitize_step_name(steps[i], max_length)
             n       == Len(steps)
         IN  <<[id     |-> EdgeInitialTo \o name(1),
                source |-> StateInitial,
                target |-> StatePrefix \o name(1),
                automata_dependencies |-> sanitize_all(deps, max_length)]>>
             \o [i \in 1..(n - 1) |->
                    [id     |-> EdgePrefix \o name(i) \o DashToDash \o name(i + 1),
                     source |-> StatePrefix \o name(i),
                     target |-> StatePrefix \o name(i + 1),
                     automata_dependencies |-> <<>>]]
             \o <<[id     |-> EdgePrefix \o name(n) \o ToCompleted,
                   source |-> StatePrefix \o name(n),
                   target |-> StateCompleted,
                   automata_dependencies |-> <<>>]>>

\* Automate.from_process
from_process(process, deps, max_length) ==
    [id          |-> sanitize(process.id, max_length),
     states      |-> create_states_from_steps(process.steps, max_length),
     transitions |-> create_transitions_from_steps(process.steps, deps, max_length),
     automata_dependencies |-> sanitize_all(deps, max_length)]

\* Automate.get_initial_state: the first state with the canonical id, as a
\* list of one state, or the empty list for None
get_initial_state(automate) ==
    IF \E i \in 1..Len(automate.states) : automate.states[i].id = StateInitial
    THEN <<automate.states[CHOOSE i \in 1..Len(automate.states) :
                              /\ automate.states[i].id = StateInitial
                              /\ \A j \in 1..(i - 1) : automate.states[j].id # StateInitial]>>
    ELSE <<>>

\* Process.validate_steps: the step list is accepted
validate_steps(v) == v # <<>> /\ ~(Len(v) > MaxStepsLimit)

(***************************************************************************)
(* Identifiers and step labels of the model.                               *)
(***************************************************************************)
Id01      == <<"0","1">>
IdUpperA  == <<"A">>
IdLowerA  == <<"a">>
IdUnknown == <<"9","9">>
ProcIds   == {Id01, IdUpperA, IdLowerA}

LabelCheck   == <<"c","h","e","c","k">>
LabelSignOff == <<"S","i","g","n","_","o","f","f">>
LabelInitial == <<"I","n","i","t","i","a","l">>
Labels       == {LabelCheck, LabelSignOff, LabelInitial}

\* step lists at the validation bound and one past it
StepsAtLimit   == [i \in 1..MaxStepsLimit |-> IF i % 2 = 1 THEN LabelCheck ELSE LabelSignOff]
StepsOverLimit == Append(StepsAtLimit, LabelCheck)

(***************************************************************************)
(* SpecAuto: Automate.from_process on one Process.  A Process holds the    *)
(* step list its validator accepted when it was built.                     *)
(***************************************************************************)
AutoStepLists == (SeqsUpTo(Labels, MaxSteps) \cup {StepsAtLimit}) \ {<<>>}

AutoIdle ==
    /\ a_pc = "idle" /\ a_process = None /\ a_deps = <<>> /\ a_max = 0
    /\ a_automate = None

AutoInit ==
    /\ a_pc = "process"
    /\ a_process \in [id : ProcIds, steps : AutoStepLists]
    /\ validate_steps(a_process.steps)
    /\ a_deps \in SeqsUpTo(ProcIds, MaxDepList)
    /\ a_max \in MaxLengths
    /\ a_automate = None

FromProcess ==
    /\ a_pc = "process"
    /\ a_automate' = from_process(a_process, a_deps, a_max)
    /\ a_pc' = "built"
    /\ UNCHANGED <<a_process, a_deps, a_max>>

(***************************************************************************)
(* core/process_detector.py: the detection response.  A decoded response   *)
(* is a list of items; an item is a non-object or an object holding some   *)
(* of the keys id, name and steps.                                         *)
(***************************************************************************)
RequiredKeys == {"id", "name", "steps"}

NonObject == [kind |-> "nonobject", keys |-> {}, id |-> <<>>, steps |-> <<>>]

ObjectItem(keys, id, steps) ==
    [kind |-> "object", keys |-> keys, id |-> id, steps |-> steps]

\* the records of the model: every id with an empty, a one-step and an
\* eleven-step list, the objects that miss one required key, a non-object
RecordSteps == {<<>>, <<LabelCheck>>, StepsOverLimit}

Items ==
    {ObjectItem(RequiredKeys, id, steps) : id \in ProcIds, steps \in RecordSteps}
    \cup {ObjectItem(RequiredKeys \ {k}, Id01, <<LabelCheck>>) : k \in RequiredKeys}
    \cup {NonObject}

\* no '[' span in the text / a span json.loads rejects / a decoded list
Responses ==
    {[kind |-> "no_array", items |-> <<>>], [kind |-> "undecodable", items |-> <<>>]}
    \cup {[kind |-> "array", items |-> items] : items \in SeqsUpTo(Items, MaxRecords)}

\* ai_provider.query raised (AIProviderError or one of its subclasses) and
\* there is no response text
QueryFailed == [kind |-> "query_failed", items |-> <<>>]

\* what the query of detect_processes gives
QueryOutcomes == Responses \cup {QueryFailed}

\* the record passes the checks of the loop of _parse_processes_response
HasRequiredFields(item) == item.kind = "object" /\ RequiredKeys \subseteq item.keys

\* the record is structurally valid: required fields and 1 to 10 steps
IsValidRecord(item) == HasRequiredFields(item) /\ validate_steps(item.steps)

\* Process.from_ai_response: the Process built, or the validator's error
from_ai_response(item) ==
    IF validate_steps(item.steps)
    THEN [raised |-> None, process |-> [id |-> item.id, steps |-> item.steps]]
    ELSE [raised |-> "ValidationError", process |-> None]

\* the for loop of _parse_processes_response, from the i-th item on
RECURSIVE parse_items(_, _, _)
parse_items(items, i, acc) ==
    IF i > Len(items) THEN [raised |-> None, processes |-> acc]
    ELSE IF ~HasRequiredFields(items[i]) THEN parse_items(items, i + 1, acc)
    ELSE LET r == from_ai_response(items[i]) IN
         IF r.raised # None THEN [raised |-> r.raised, processes |-> <<>>]
         ELSE parse_items(items, i + 1, Append(acc, r.process))

\* _parse_processes_response: the list returned, or the exception raised
parse_processes_response(resp) ==
    IF resp.kind = "no_array" THEN [raised |-> None, processes |-> <<>>]
    ELSE IF resp.kind = "undecodable" THEN [raised |-> None, processes |-> <<>>]
    ELSE parse_items(resp.items, 1, <<>>)

(***************************************************************************)
(* The dependency response.  A decoded object gives, for a process id, no  *)
(* entry, a list of ids, or a value that is no list (null, a number).      *)
(***************************************************************************)
Absent == [kind |-> "absent", ids |-> <<>>]
Scalar == [kind |-> "scalar", ids |-> <<>>]
ListOf(ids) == [kind |-> "list", ids |-> ids]

IsAbsent(e) == e.kind = "absent"
IsScalar(e) == e.kind = "scalar"

CandidateIds == ProcIds \cup {IdUnknown}

EntryLen(e) == Len(e.ids)

Entries == {Absent, Scalar} \cup {ListOf(ids) : ids \in SeqsUpTo(CandidateIds, MaxCandidates)}

DepObjects ==
    {o \in [ProcIds -> Entries] :
        EntryLen(o[Id01]) + EntryLen(o[IdUpperA]) + EntryLen(o[IdLowerA]) <= MaxCandidates}

\* no '{' span in the text / a span json.loads rejects / a decoded object
DepResponses ==
    {[kind |-> "no_object", data |-> <<>>], [kind |-> "undecodable", data |-> <<>>]}
    \cup {[kind |-> "object", data |-> o] : o \in DepObjects}

\* the query of analyze_dependencies raised
DepQueryFailed == [kind |-> "query_failed", data |-> <<>>]

DepQueryOutcomes == DepResponses \cup {DepQueryFailed}

EmptyGraph == [keys |-> <<>>, deps |-> <<>>]

\* the orders in which a set can be iterated
Orders(S) ==
    {q \in [1..Cardinality(S) -> S] : \A i, j \in 1..Cardinality(S) : q[i] = q[j] => i = j}

\* {p.id for p in processes}
IdsOf(procs) == {procs[i].id : i \in 1..Len(procs)}

\* the filter without its test against the owning process id
valid_deps_with_self(entry, process_id, process_ids) ==
    SelectSeq(entry, LAMBDA dep : dep \in process_ids)

\* the filter of _parse_dependencies_response on one list
valid_deps_of(entry, process_id, process_ids) ==
    SelectSeq(entry, LAMBDA dep : dep \in process_ids /\ dep # process_id)

\* _parse_dependencies_response: the map returned, or the exception raised;
\* order is the order in which the set process_ids is iterated
parse_dependencies_response(resp, procs, order) ==
    IF resp.kind = "no_object" THEN [raised |-> None, graph |-> EmptyGraph]
    ELSE IF resp.kind = "undecodable" THEN [raised |-> None, graph |-> EmptyGraph]
    ELSE IF \E id \in IdsOf(procs) : IsScalar(resp.data[id])
    THEN [raised |-> "TypeError", graph |-> EmptyGraph]
    ELSE [raised |-> None,
          graph  |-> [keys |-> order,
                      deps |-> [id \in IdsOf(procs) |->
                                   IF IsAbsent(resp.data[id]) THEN <<>>
                                   ELSE valid_deps_of(resp.data[id].ids, id, IdsOf(procs))]]]

\* analyze_dependencies after the parse
clean_dependencies(parsed, detect) ==
    IF detect THEN detector_remove_cycles(parsed) ELSE parsed

(***************************************************************************)
(* SpecDeps: ProcessDetector.analyze_dependencies on a process list and    *)
(* the response of its query.  Only the ids of the processes are read, as  *)
(* a set: the model gives one process list for each set of ids.            *)
(***************************************************************************)
ProcessesOf(ids) ==
    LET order == CHOOSE q \in Orders(ids) : TRUE
    IN  [i \in 1..Len(order) |-> [id |-> order[i], steps |-> <<LabelCheck>>]]

DepProcessLists == {ProcessesOf(ids) : ids \in SUBSET ProcIds}

DepsIdle ==
    /\ d_pc = "idle" /\ d_processes = <<>> /\ d_detect = FALSE
    /\ d_response = None /\ d_parsed = None /\ d_out = None

DepsInit ==
    /\ d_pc = "query"
    /\ d_processes \in DepProcessLists
    /\ d_detect \in BOOLEAN
    /\ d_response \in DepQueryOutcomes
    /\ d_parsed = None
    /\ d_out = None

\* analyze_dependencies returns
DepsAnalyze ==
    /\ d_pc = "query"
    /\ d_response # DepQueryFailed
    /\ \E order \in Orders(IdsOf(d_processes)) :
          LET parsed == parse_dependencies_response(d_response, d_processes, order)
          IN  /\ parsed.raised = None
              /\ d_parsed' = parsed.graph
              /\ d_out' = clean_dependencies(parsed.graph, d_detect)
    /\ d_pc' = "returned"
    /\ UNCHANGED <<d_processes, d_detect, d_response>>

\* _parse_dependencies_response raises, and analyze_dependencies with it
DepsAnalyzeRaises ==
    /\ d_pc = "query"
    /\ d_response # DepQueryFailed
    /\ \E order \in Orders(IdsOf(d_processes)) :
          parse_dependencies_response(d_response, d_processes, order).raised # None
    /\ d_pc' = "raised"
    /\ UNCHANGED <<d_processes, d_detect, d_response, d_parsed, d_out>>

\* the query raises, and analyze_dependencies with it: no try encloses it
DepsQueryRaises ==
    /\ d_pc = "query"
    /\ d_response = DepQueryFailed
    /\ d_pc' = "raised"
    /\ UNCHANGED <<d_processes, d_detect, d_response, d_parsed, d_out>>

(***************************************************************************)
(* core/analyzer.py, models/contract.py, utils/validator.py: the contract. *)
(* A Contract is modelled by its list of automatons.  _generate_automatons *)
(* names its Automate class through models.automate; the class modelled is *)
(* the Automate of models/contract.py, the only one of the repository.     *)
(***************************************************************************)
\* dependencies.get(process.id, [])
generate_automatons(procs, deps) ==
    [i \in 1..Len(procs) |->
        from_process(procs[i], Get(deps, procs[i].id), DefaultMaxLength)]

AutomateIds(automates) == {automates[i].id : i \in 1..Len(automates)}

\* the keys of a dict comprehension over a list: first occurrences, in order
RECURSIVE DictKeys(_)
DictKeys(ids) ==
    IF ids = <<>> THEN <<>>
    ELSE LET front == DictKeys(SubSeq(ids, 1, Len(ids) - 1))
             last  == ids[Len(ids)]
         IN  IF last \in Range(front) THEN front ELSE Append(front, last)

\* Contract.get_dependency_graph: a later automaton of the same id overwrites
get_dependency_graph(automates) ==
    [keys |-> DictKeys([i \in 1..Len(automates) |-> automates[i].id]),
     deps |-> [id \in AutomateIds(automates) |->
                  automates[CHOOSE i \in 1..Len(automates) :
                               /\ automates[i].id = id
                               /\ \A j \in (i + 1)..Len(automates) : automates[j].id # id
                           ].automata_dependencies]]

\* Contract.has_cycles
contract_has_cycles(automates) == has_cycles(get_dependency_graph(automates))

\* Contract.validate_dependencies: one error per listed id that is no automaton
RECURSIVE validate_dependencies_from(_, _)
validate_dependencies_from(automates, i) ==
    IF i > Len(automates) THEN <<>>
    ELSE [j \in 1..Len(SelectSeq(automates[i].automata_dependencies,
                                 LAMBDA d : d \notin AutomateIds(automates))) |->
             <<"unknown automate", automates[i].id,
               SelectSeq(automates[i].automata_dependencies,
                         LAMBDA d : d \notin AutomateIds(automates))[j]>>]
         \o validate_dependencies_from(automates, i + 1)

validate_dependencies(automates) == validate_dependencies_from(automates, 1)

StateIds(automate) == {automate.states[i].id : i \in 1..Len(automate.states)}

\* the errors of one transition in Automate.validate_structure
transition_errors(automate, t) ==
    (IF t.source \notin StateIds(automate)
     THEN <<<<"unknown source state", automate.id, t.id>>>> ELSE <<>>)
    \o (IF t.target \notin StateIds(automate)
        THEN <<<<"unknown target state", automate.id, t.id>>>> ELSE <<>>)

RECURSIVE transitions_errors_from(_, _)
transitions_errors_from(automate, i) ==
    IF i > Len(automate.transitions) THEN <<>>
    ELSE transition_errors(automate, automate.transitions[i])
         \o transitions_errors_from(automate, i + 1)

\* Automate.validate_structure
validate_structure(automate) ==
    (IF automate.states = <<>> THEN <<<<"no state", automate.id>>>> ELSE <<>>)
    \o (IF get_initial_state(automate) = <<>>
        THEN <<<<"no initial state", automate.id>>>> ELSE <<>>)
    \o transitions_errors_from(automate, 1)

RECURSIVE structure_errors_from(_, _)
structure_errors_from(automates, i) ==
    IF i > Len(automates) THEN <<>>
    ELSE validate_structure(automates[i]) \o structure_errors_from(automates, i + 1)

CycleError == <<"Contract dependency graph has cycles">>

\* ResultValidator.validate_contract; the contract's id and name are never empty
validate_contract(automates) ==
    (IF automates = <<>> THEN <<<<"no automate">>>> ELSE <<>>)
    \o structure_errors_from(automates, 1)
    \o validate_dependencies(automates)
    \o (IF contract_has_cycles(automates) THEN <<CycleError>> ELSE <<>>)

(***************************************************************************)
(* Spec: CLAMBAAnalyzer.analyze_contract, one action per step.             *)
(***************************************************************************)
PipeIdle ==
    /\ pc = "idle" /\ cycle_detection = FALSE /\ response = None
    /\ processes = <<>> /\ dep_kind = None /\ parsed_deps = None
    /\ dependencies = None /\ contract = None /\ errors = <<>> /\ raised = None

PipeInit ==
    /\ pc = "start"
    /\ cycle_detection \in BOOLEAN
    /\ response \in QueryOutcomes
    /\ processes = <<>>
    /\ dep_kind = None
    /\ parsed_deps = None
    /\ dependencies = None
    /\ contract = None
    /\ errors = <<>>
    /\ raised = None

\* step 2, detect_processes returns
DetectProcesses ==
    /\ pc = "start"
    /\ response # QueryFailed
    /\ parse_processes_response(response).raised = None
    /\ processes' = parse_processes_response(response).processes
    /\ pc' = "detected"
    /\ UNCHANGED <<cycle_detection, response, dep_kind, parsed_deps, dependencies,
                   contract, errors, raised>>

\* step 2, a record's validator raises through detect_processes
DetectProcessesRaises ==
    /\ pc = "start"
    /\ response # QueryFailed
    /\ parse_processes_response(response).raised # None
    /\ raised' = parse_processes_response(response).raised
    /\ pc' = "failed"
    /\ UNCHANGED <<cycle_detection, response, processes, dep_kind, parsed_deps,
                   dependencies, contract, errors>>

\* step 2, the query raises through detect_processes: no try encloses it
DetectProcessesQueryRaises ==
    /\ pc = "start"
    /\ response = QueryFailed
    /\ raised' = "AIProviderError"
    /\ pc' = "failed"
    /\ UNCHANGED <<cycle_detection, response, processes, dep_kind, parsed_deps,
                   dependencies, contract, errors>>

\* step 3, analyze_dependencies returns
AnalyzeDependencies ==
    /\ pc = "detected"
    /\ \E resp \in DepResponses, order \in Orders(IdsOf(processes)) :
          LET parsed == parse_dependencies_response(resp, processes, order) IN
          /\ parsed.raised = None
          /\ dep_kind' = resp.kind
          /\ parsed_deps' = parsed.graph
          /\ dependencies' = clean_dependencies(parsed.graph, cycle_detection)
    /\ pc' = "analyzed"
    /\ UNCHANGED <<cycle_detection, response, processes, contract, errors, raised>>

\* step 3, a listed value that is no list raises through analyze_dependencies
AnalyzeDependenciesRaises ==
    /\ pc = "detected"
    /\ \E resp \in DepResponses, order \in Orders(IdsOf(processes)) :
          /\ parse_dependencies_response(resp, processes, order).raised # None
          /\ dep_kind' = resp.kind
          /\ raised' = parse_dependencies_response(resp, processes, order).raised
    /\ pc' = "failed"
    /\ UNCHANGED <<cycle_detection, response, processes, parsed_deps, dependencies,
                   contract, errors>>

\* step 3, the query raises through analyze_dependencies
AnalyzeDependenciesQueryRaises ==
    /\ pc = "detected"
    /\ dep_kind' = DepQueryFailed.kind
    /\ raised' = "AIProviderError"
    /\ pc' = "failed"
    /\ UNCHANGED <<cycle_detection, response, processes, parsed_deps, dependencies,
                   contract, errors>>

\* step 4, _generate_automatons
GenerateAutomatons ==
    /\ pc = "analyzed"
    /\ contract' = generate_automatons(processes, dependencies)
    /\ pc' = "generated"
    /\ UNCHANGED <<cycle_detection, response, processes, dep_kind, parsed_deps,
                   dependencies, errors, raised>>

\* step 5 without its check: whatever the contract, the result is returned
ValidateResultUnchecked ==
    /\ pc = "generated"
    /\ errors' = validate_contract(contract)
    /\ pc' = "done"
    /\ UNCHANGED <<cycle_detection, response, processes, dep_kind, parsed_deps,
                   dependencies, contract, raised>>

\* step 5, _validate_result passes and the ContractResult is returned
ValidateResult ==
    /\ pc = "generated"
    /\ validate_contract(contract) = <<>>
    /\ errors' = <<>>
    /\ pc' = "done"
    /\ UNCHANGED <<cycle_detection, response, processes, dep_kind, parsed_deps,
                   dependencies, contract, raised>>

\* step 5, _validate_result raises the aggregate error
ValidateResultRaises ==
    /\ pc = "generated"
    /\ validate_contract(contract) # <<>>
    /\ errors' = validate_contract(contract)
    /\ raised' = "ValueError"
    /\ pc' = "failed"
    /\ UNCHANGED <<cycle_detection, response, processes, dep_kind, parsed_deps,
                   dependencies, contract>>

\* the caller of analyze_contract (analyze_multiple_contracts, the analyze
\* command) hands the ContractResult to save_result, which writes the file
SaveResult ==
    /\ pc = "done"
    /\ pc' = "saved"
    /\ UNCHANGED <<cycle_detection, response, processes, dep_kind, parsed_deps,
                   dependencies, contract, errors, raised>>

\* save_result raises: the file cannot be opened, or json.dump meets the
\* datetime of contract.dict()
SaveResultRaises ==
    /\ pc = "done"
    /\ pc' = "save_failed"
    /\ UNCHANGED <<cycle_detection, response, processes, dep_kind, parsed_deps,
                   dependencies, contract, errors, raised>>

(***************************************************************************)
(* SpecSynth: _generate_automatons called twice on the same processes,     *)
(* dependencies and contract name.  The clock is read at each call; a      *)
(* reading is a second of one minute.  Of the Contract, the id, created_at *)
(* and the automatons are modelled: updated_at is read from the clock as   *)
(* created_at is, and the other fields are literals or the name.           *)
(***************************************************************************)
ContractDash == <<"c","o","n","t","r","a","c","t","-">>

DigitChar(n) == <<"0","1","2","3","4","5","6","7","8","9">>[n + 1]

\* datetime.now().strftime('%Y%m%d%H%M%S') at second now of a fixed minute
Timestamp(now) ==
    <<"2","0","2","6","0","1","0","1","0","0","0","0">>
    \o <<DigitChar(now \div 10), DigitChar(now % 10)>>

\* the automaton ids stamped with the clock as the contract id is
generate_contract_stamping_automates(procs, deps, contract_name, now) ==
    [id         |-> sanitize(ContractDash \o contract_name \o <<"-">> \o Timestamp(now),
                             DefaultMaxLength),
     created_at |-> now,
     automates  |-> [i \in 1..Len(procs) |->
                       [generate_automatons(procs, deps)[i] EXCEPT
                           !.id = sanitize(@ \o <<"-">> \o Timestamp(now),
                                           DefaultMaxLength)]]]

\* _generate_automatons: the Contract built when the clock reads now
generate_contract(procs, deps, contract_name, now) ==
    [id         |-> sanitize(ContractDash \o contract_name \o <<"-">> \o Timestamp(now),
                             DefaultMaxLength),
     created_at |-> now,
     automates  |-> generate_automatons(procs, deps)]

SynthProcesses ==
    {[id |-> Id01, steps |-> <<LabelSignOff, LabelCheck>>],
     [id |-> IdUpperA, steps |-> <<LabelCheck>>],
     [id |-> IdLowerA, steps |-> <<LabelCheck>>]}

\* the empty map, and the maps over the process ids in which at most one
\* process lists a process id
SynthGraphs(procs) ==
    {EmptyGraph}
    \cup {[keys |-> DictKeys([i \in 1..Len(procs) |-> procs[i].id]), deps |-> d] :
            d \in {e \in [IdsOf(procs) -> SeqsUpTo(IdsOf(procs), 1)] :
                      Cardinality({id \in IdsOf(procs) : e[id] # <<>>}) <= 1}}

ContractNames == {<<"d","o","c">>, <<"M","y","_","d","o","c">>}

SynthIdle ==
    /\ y_pc = "idle" /\ y_processes = <<>> /\ y_deps = None /\ y_name = <<>>
    /\ y_first = None /\ y_second = None

SynthInit ==
    /\ y_pc = "inputs"
    /\ y_processes \in SeqsUpTo(SynthProcesses, MaxRecords)
    /\ y_deps \in SynthGraphs(y_processes)
    /\ y_name \in ContractNames
    /\ y_first = None
    /\ y_second = None

GenerateFirst ==
    /\ y_pc = "inputs"
    /\ \E now \in 0..MaxClock :
          y_first' = generate_contract(y_processes, y_deps, y_name, now)
    /\ y_pc' = "first"
    /\ UNCHANGED <<y_processes, y_deps, y_name, y_second>>

\* the second call, not before the first
GenerateSecond ==
    /\ y_pc = "first"
    /\ \E now \in y_first.created_at..MaxClock :
          y_second' = generate_contract(y_processes, y_deps, y_name, now)
    /\ y_pc' = "second"
    /\ UNCHANGED <<y_processes, y_deps, y_name, y_first>>

(***************************************************************************)
(* SpecExtract: the bracket matchers of ProcessDetector on a response      *)
(* text.  The two functions differ by their bracket pair only.             *)
(***************************************************************************)
NotFound == [found |-> FALSE, span |-> <<>>]

\* text.find(open) from 1, 0 for -1
find(text, open) ==
    IF \E i \in 1..Len(text) : text[i] = open
    THEN CHOOSE i \in 1..Len(text) :
             text[i] = open /\ \A j \in 1..(i - 1) : text[j] # open
    ELSE 0

\* the loop ended by the first closing bracket, whatever the count
RECURSIVE extract_to_first_close(_, _, _, _, _, _)
extract_to_first_close(text, open, close, start_idx, i, bracket_count) ==
    IF i > Len(text) THEN NotFound
    ELSE IF text[i] = close
         THEN [found |-> TRUE, span |-> SubSeq(text, start_idx, i)]
         ELSE extract_to_first_close(text, open, close, start_idx, i + 1, bracket_count)

\* the for loop of the extractors from position i on
RECURSIVE extract_loop(_, _, _, _, _, _)
extract_loop(text, open, close, start_idx, i, bracket_count) ==
    IF i > Len(text) THEN NotFound
    ELSE IF text[i] = open
         THEN extract_loop(text, open, close, start_idx, i + 1, bracket_count + 1)
    ELSE IF text[i] = close
         THEN IF bracket_count - 1 = 0
              THEN [found |-> TRUE, span |-> SubSeq(text, start_idx, i)]
              ELSE extract_loop(text, open, close, start_idx, i + 1, bracket_count - 1)
    ELSE extract_loop(text, open, close, start_idx, i + 1, bracket_count)

extract_json_array(text) ==
    IF find(text, "[") = 0 THEN NotFound
    ELSE extract_loop(text, "[", "]", find(text, "["), find(text, "["), 0)

extract_json_object(text) ==
    IF find(text, "{") = 0 THEN NotFound
    ELSE extract_loop(text, "{", "}", find(text, "{"), find(text, "{"), 0)

BracketChars == {"[", "]", "{", "}", "x"}

ExtIdle ==
    /\ x_pc = "idle" /\ x_text = <<>> /\ x_pair = None /\ x_out = None

ExtInit ==
    /\ x_pc = "text"
    /\ x_text \in SeqsUpTo(BracketChars, MaxBracketLen)
    /\ x_pair \in {"array", "object"}
    /\ x_out = None

ExtractArray ==
    /\ x_pc = "text"
    /\ x_pair = "array"
    /\ x_out' = extract_json_array(x_text)
    /\ x_pc' = "extracted"
    /\ UNCHANGED <<x_text, x_pair>>

ExtractObject ==
    /\ x_pc = "text"
    /\ x_pair = "object"
    /\ x_out' = extract_json_object(x_text)
    /\ x_pc' = "extracted"
    /\ UNCHANGED <<x_text, x_pair>>

(***************************************************************************)
(* SpecBatch: analyze_multiple_contracts, one action per call made by an   *)
(* iteration of its loop.  A document is modelled by how analyze_contract  *)
(* ends on it.  contract.dict() holds the datetime objects created_at and  *)
(* updated_at, which json.dump rejects with TypeError after the file was   *)
(* opened for writing; yaml.dump writes them, and open can fail.           *)
(***************************************************************************)
BatchIdle ==
    /\ b_pc = "idle" /\ b_docs = <<>> /\ b_format = None /\ b_i = 0
    /\ b_results = <<>> /\ b_failed = <<>> /\ b_files = {}

BatchInit ==
    /\ b_pc = "analyze"
    /\ b_docs \in SeqsUpTo({"returns", "raises"}, MaxDocs)
    /\ b_format \in {"json", "yaml"}
    /\ b_i = 1
    /\ b_results = <<>>
    /\ b_failed = <<>>
    /\ b_files = {}

\* analyze_contract returns and its result is appended to results
BatchAnalyzeReturns ==
    /\ b_pc = "analyze"
    /\ b_i <= Len(b_docs)
    /\ b_docs[b_i] = "returns"
    /\ b_results' = Append(b_results, b_i)
    /\ b_pc' = "save"
    /\ UNCHANGED <<b_docs, b_format, b_i, b_failed, b_files>>

\* analyze_contract raises: the except branch logs and continues
BatchAnalyzeRaises ==
    /\ b_pc = "analyze"
    /\ b_i <= Len(b_docs)
    /\ b_docs[b_i] = "raises"
    /\ b_failed' = Append(b_failed, b_i)
    /\ b_i' = b_i + 1
    /\ UNCHANGED <<b_pc, b_docs, b_format, b_results, b_files>>

\* save_result returns
BatchSaveReturns ==
    /\ b_pc = "save"
    /\ b_format = "yaml"
    /\ b_files' = b_files \cup {b_i}
    /\ b_i' = b_i + 1
    /\ b_pc' = "analyze"
    /\ UNCHANGED <<b_docs, b_format, b_results, b_failed>>

\* save_result raises inside the same try: the except branch logs and
\* continues, results keeps the appended result
BatchSaveRaises ==
    /\ b_pc = "save"
    /\ b_files' = IF b_format = "json" THEN b_files \cup {b_i} ELSE b_files
    /\ b_failed' = Append(b_failed, b_i)
    /\ b_i' = b_i + 1
    /\ b_pc' = "analyze"
    /\ UNCHANGED <<b_docs, b_format, b_results>>

\* the loop is over: the summary is written and results returned
BatchFinish ==
    /\ b_pc = "analyze"
    /\ b_i > Len(b_docs)
    /\ b_pc' = "finished"
    /\ UNCHANGED <<b_docs, b_format, b_i, b_results, b_failed, b_files>>

(***************************************************************************)
(* models/process.py: a Process and its two mutators.  A Process is        *)
(* modelled by its steps and its detailed_steps; a ProcessStep by its id,  *)
(* name and order.                                                         *)
(***************************************************************************)
\* str(n) of a natural number
RECURSIVE Decimal(_)
Decimal(n) ==
    IF n < 10 THEN <<DigitChar(n)>>
    ELSE Decimal(n \div 10) \o <<DigitChar(n % 10)>>

\* f"step-{n}"
StepId(n) == <<"s","t","e","p","-">> \o Decimal(n)

\* the detailed_steps loop of from_ai_response
detailed_steps_of(steps) ==
    [i \in 1..Len(steps) |-> [id |-> StepId(i), name |-> steps[i], order |-> i - 1]]

\* Process.add_step
add_step(steps, detailed_steps, step_name) ==
    LET step_order == Len(detailed_steps)
    IN  [steps          |-> Append(steps, step_name),
         detailed_steps |-> Append(detailed_steps,
                                   [id |-> StepId(step_order + 1), name |-> step_name,
                                    order |-> step_order])]

\* list.remove(x): the list without the first x
list_remove(list, x) ==
    LET i == CHOOSE k \in 1..Len(list) :
                 list[k] = x /\ \A m \in 1..(k - 1) : list[m] # x
    IN  SubSeq(list, 1, i - 1) \o SubSeq(list, i + 1, Len(list))

\* Process.remove_step
remove_step(steps, detailed_steps, step_name) ==
    IF step_name \in Range(steps)
    THEN LET kept == SelectSeq(detailed_steps, LAMBDA step : step.name # step_name)
         IN  [returned       |-> TRUE,
              steps          |-> list_remove(steps, step_name),
              detailed_steps |-> [i \in 1..Len(kept) |->
                                     [id |-> StepId(i), name |-> kept[i].name,
                                      order |-> i - 1]]]
    ELSE [returned |-> FALSE, steps |-> steps, detailed_steps |-> detailed_steps]

(***************************************************************************)
(* SpecProcess: Process.from_ai_response on the steps of one raw record,   *)
(* under a configuration that sets max_steps_per_process, then add_step    *)
(* and remove_step calls on the Process built.                             *)
(***************************************************************************)
StepNames == {LabelCheck, LabelSignOff}

\* a step list one past the default of max_steps_per_process
StepsOverDefault == SubSeq(StepsAtLimit, 1, DefaultMaxStepsPerProcess + 1)

ProcRecords ==
    SeqsUpTo(StepNames, MaxSteps) \cup {StepsOverDefault, StepsAtLimit, StepsOverLimit}

\* max_steps_per_process: the default, and a setting above the validator's 10
MaxStepsSettings == {DefaultMaxStepsPerProcess, MaxStepsLimit + 1}

ProcIdle ==
    /\ p_pc = "idle" /\ p_max = 0 /\ p_record = <<>>
    /\ p_steps = <<>> /\ p_detailed = <<>> /\ p_calls = 0

ProcInit ==
    /\ p_pc = "record"
    /\ p_max \in MaxStepsSettings
    /\ p_record \in ProcRecords
    /\ p_steps = <<>>
    /\ p_detailed = <<>>
    /\ p_calls = 0

\* from_ai_response returns the Process
BuildProcess ==
    /\ p_pc = "record"
    /\ validate_steps(p_record)
    /\ p_steps' = p_record
    /\ p_detailed' = detailed_steps_of(p_record)
    /\ p_pc' = "built"
    /\ UNCHANGED <<p_max, p_record, p_calls>>

\* the validator of steps raises
BuildProcessRaises ==
    /\ p_pc = "record"
    /\ ~validate_steps(p_record)
    /\ p_pc' = "rejected"
    /\ UNCHANGED <<p_max, p_record, p_steps, p_detailed, p_calls>>

AddStep ==
    /\ p_pc = "built"
    /\ p_calls < MaxCalls
    /\ \E step_name \in StepNames :
          LET r == add_step(p_steps, p_detailed, step_name)
          IN  p_steps' = r.steps /\ p_detailed' = r.detailed_steps
    /\ p_calls' = p_calls + 1
    /\ UNCHANGED <<p_pc, p_max, p_record>>

\* remove_step returns True
RemoveStep ==
    /\ p_pc = "built"
    /\ p_calls < MaxCalls
    /\ \E step_name \in StepNames :
          LET r == remove_step(p_steps, p_detailed, step_name)
          IN  r.returned /\ p_steps' = r.steps /\ p_detailed' = r.detailed_steps
    /\ p_calls' = p_calls + 1
    /\ UNCHANGED <<p_pc, p_max, p_record>>

\* remove_step returns False
RemoveStepAbsent ==
    /\ p_pc = "built"
    /\ p_calls < MaxCalls
    /\ \E step_name \in StepNames :
          LET r == remove_step(p_steps, p_detailed, step_name)
          IN  ~r.returned /\ p_steps' = r.steps /\ p_detailed' = r.detailed_steps
    /\ p_calls' = p_calls + 1
    /\ UNCHANGED <<p_pc, p_max, p_record>>

(***************************************************************************)
(* ai/ollama.py: OllamaProvider.query.  One HTTP request is made per       *)
(* iteration of the loop; an outcome names what the request and the        *)
(* reading of its answer do.  Delays are counted in tenths of a second.    *)
(***************************************************************************)
\* status 200 with a text that is not blank
OutcomeText       == "text"
\* status 200 with "response" missing, null, empty or blank
OutcomeBlank      == "blank"
\* status 200 with a body response.json() or .strip() cannot read
OutcomeUnreadable == "unreadable"
OutcomeNotFound   == "status_404"
OutcomeRateLimit  == "status_429"
OutcomeOtherStatus == "status_500"
OutcomeConnection == "ConnectionError"
OutcomeTimeout    == "Timeout"

Outcomes ==
    {OutcomeText, OutcomeBlank, OutcomeUnreadable, OutcomeNotFound, OutcomeRateLimit,
     OutcomeOtherStatus, OutcomeConnection, OutcomeTimeout}

\* the exception that leaves the try block, None when the block returns
try_raises(outcome) ==
    CASE outcome = OutcomeText        -> None
      [] outcome = OutcomeBlank       -> "AIResponseError"
      [] outcome = OutcomeUnreadable  -> "ValueError"
      [] outcome = OutcomeNotFound    -> "AIProviderError"
      [] outcome = OutcomeRateLimit   -> "AIRateLimitError"
      [] outcome = OutcomeOtherStatus -> "AIProviderError"
      [] outcome = OutcomeConnection  -> "requests.ConnectionError"
      [] outcome = OutcomeTimeout     -> "requests.Timeout"

\* each except clause raises on the last attempt only
raises_in_attempt(exception, attempt) == attempt = MaxRetries - 1

\* the exception caught, raised again as it is
raised_as_caught(exception) == exception

\* what the except clause raises on the last attempt; BaseAIProvider.handle_error
\* raises AIProviderError whatever it is given
raised_by_handler(exception) ==
    IF exception = "requests.ConnectionError" THEN "AIConnectionError"
    ELSE "AIProviderError"

QueryIdle ==
    /\ q_pc = "idle" /\ q_attempt = 0 /\ q_delay = 0
    /\ q_log = <<>> /\ q_result = None /\ q_raised = None

QueryInit ==
    /\ q_pc = "attempt"
    /\ q_attempt = 0
    /\ q_delay = RetryDelay
    /\ q_log = <<>>
    /\ q_result = None
    /\ q_raised = None

\* The raise that follows the loop is never reached: on the last attempt
\* the try block returns or one of the except clauses raises.

\* the request is answered and query returns the text
AttemptReturns ==
    /\ q_pc = "attempt"
    /\ q_attempt < MaxRetries
    /\ \E outcome \in Outcomes :
          /\ try_raises(outcome) = None
          /\ q_log' = Append(q_log, outcome)
          /\ q_result' = outcome
    /\ q_pc' = "returned"
    /\ UNCHANGED <<q_attempt, q_delay, q_raised>>

\* the try block raises and its except clause sleeps: the loop goes on
AttemptRetries ==
    /\ q_pc = "attempt"
    /\ q_attempt < MaxRetries
    /\ \E outcome \in Outcomes :
          /\ try_raises(outcome) # None
          /\ ~raises_in_attempt(try_raises(outcome), q_attempt)
          /\ q_log' = Append(q_log, outcome)
    /\ q_attempt' = q_attempt + 1
    /\ q_delay' = (q_delay * BackoffFactor) \div 10
    /\ UNCHANGED <<q_pc, q_result, q_raised>>

\* the try block raises and its except clause raises in turn
AttemptRaises ==
    /\ q_pc = "attempt"
    /\ q_attempt < MaxRetries
    /\ \E outcome \in Outcomes :
          /\ try_raises(outcome) # None
          /\ raises_in_attempt(try_raises(outcome), q_attempt)
          /\ q_log' = Append(q_log, outcome)
          /\ q_raised' = raised_by_handler(try_raises(outcome))
    /\ q_pc' = "raised"
    /\ UNCHANGED <<q_attempt, q_delay, q_result>>

(***************************************************************************)
(* The specifications.                                                     *)
(***************************************************************************)
SanNext == Sanitize \/ SanitizeAgain

InitSan ==
    SanInit /\ GraphIdle /\ AutoIdle /\ PipeIdle /\ DepsIdle /\ BatchIdle /\ ExtIdle /\ SynthIdle
        /\ ProcIdle /\ QueryIdle

SpecSan ==
    /\ InitSan
    /\ [][SanNext /\ UNCHANGED <<graphVars, autoVars, pipeVars, depVars, batchVars, extVars, synthVars, procVars, queryVars>>]_vars

GraphNext ==
    \/ AddNode
    \/ AddDep
    \/ RunHasCycles
    \/ RunRemoveCycles
    \/ RunDetectorRemoveCycles
    \/ RunTopologicalSort

InitGraph ==
    GraphInit /\ SanIdle /\ AutoIdle /\ PipeIdle /\ DepsIdle /\ BatchIdle /\ ExtIdle /\ SynthIdle
        /\ ProcIdle /\ QueryIdle

SpecGraph ==
    /\ InitGraph
    /\ [][GraphNext /\ UNCHANGED <<sanVars, autoVars, pipeVars, depVars, batchVars, extVars, synthVars, procVars, queryVars>>]_vars

AutoNext == FromProcess

InitAuto ==
    AutoInit /\ SanIdle /\ GraphIdle /\ PipeIdle /\ DepsIdle /\ BatchIdle /\ ExtIdle /\ SynthIdle
        /\ ProcIdle /\ QueryIdle

SpecAuto ==
    /\ InitAuto
    /\ [][AutoNext /\ UNCHANGED <<sanVars, graphVars, pipeVars, depVars, batchVars, extVars, synthVars, procVars, queryVars>>]_vars

Next ==
    \/ DetectProcesses
    \/ DetectProcessesRaises
    \/ DetectProcessesQueryRaises
    \/ AnalyzeDependencies
    \/ AnalyzeDependenciesRaises
    \/ AnalyzeDependenciesQueryRaises
    \/ GenerateAutomatons
    \/ ValidateResult
    \/ ValidateResultRaises
    \/ SaveResult
    \/ SaveResultRaises

Init ==
    PipeInit /\ SanIdle /\ GraphIdle /\ AutoIdle /\ DepsIdle /\ BatchIdle /\ ExtIdle /\ SynthIdle
        /\ ProcIdle /\ QueryIdle

Spec ==
    /\ Init
    /\ [][Next /\ UNCHANGED <<sanVars, graphVars, autoVars, depVars, batchVars, extVars, synthVars, procVars, queryVars>>]_vars

DepsNext == DepsAnalyze \/ DepsAnalyzeRaises \/ DepsQueryRaises

InitDeps ==
    DepsInit /\ SanIdle /\ GraphIdle /\ AutoIdle /\ PipeIdle /\ BatchIdle /\ ExtIdle /\ SynthIdle
        /\ ProcIdle /\ QueryIdle

SpecDeps ==
    /\ InitDeps
    /\ [][DepsNext /\ UNCHANGED <<sanVars, graphVars, autoVars, pipeVars, batchVars, extVars, synthVars, procVars, queryVars>>]_vars

BatchNext ==
    \/ BatchAnalyzeReturns
    \/ BatchAnalyzeRaises
    \/ BatchSaveReturns
    \/ BatchSaveRaises
    \/ BatchFinish

InitBatch ==
    BatchInit /\ SanIdle /\ GraphIdle /\ AutoIdle /\ PipeIdle /\ DepsIdle /\ ExtIdle /\ SynthIdle
        /\ ProcIdle /\ QueryIdle

SpecBatch ==
    /\ InitBatch
    /\ [][BatchNext /\ UNCHANGED <<sanVars, graphVars, autoVars, pipeVars, depVars, extVars, synthVars, procVars, queryVars>>]_vars

ExtNext == ExtractArray \/ ExtractObject

InitExt ==
    ExtInit /\ SanIdle /\ GraphIdle /\ AutoIdle /\ PipeIdle /\ DepsIdle /\ BatchIdle /\ SynthIdle
        /\ ProcIdle /\ QueryIdle

SpecExtract ==
    /\ InitExt
    /\ [][ExtNext /\ UNCHANGED <<sanVars, graphVars, autoVars, pipeVars, depVars, batchVars, synthVars, procVars, queryVars>>]_vars

SynthNext == GenerateFirst \/ GenerateSecond

InitSynth ==
    SynthInit /\ SanIdle /\ GraphIdle /\ AutoIdle /\ PipeIdle /\ DepsIdle /\ BatchIdle /\ ExtIdle
        /\ ProcIdle /\ QueryIdle

SpecSynth ==
    /\ InitSynth
    /\ [][SynthNext /\ UNCHANGED <<sanVars, graphVars, autoVars, pipeVars, depVars, batchVars, extVars, procVars, queryVars>>]_vars

ProcNext ==
    \/ BuildProcess
    \/ BuildProcessRaises
    \/ AddStep
    \/ RemoveStep
    \/ RemoveStepAbsent

InitProc ==
    ProcInit /\ SanIdle /\ GraphIdle /\ AutoIdle /\ PipeIdle /\ DepsIdle /\ BatchIdle /\ ExtIdle
        /\ SynthIdle /\ QueryIdle

SpecProcess ==
    /\ InitProc
    /\ [][ProcNext /\ UNCHANGED <<sanVars, graphVars, autoVars, pipeVars, depVars, batchVars, extVars, synthVars, queryVars>>]_vars

QueryNext == AttemptReturns \/ AttemptRetries \/ AttemptRaises

InitQuery ==
    QueryInit /\ SanIdle /\ GraphIdle /\ AutoIdle /\ PipeIdle /\ DepsIdle /\ BatchIdle /\ ExtIdle
        /\ SynthIdle /\ ProcIdle

QueryStep ==
    QueryNext /\ UNCHANGED <<sanVars, graphVars, autoVars, pipeVars, depVars, batchVars, extVars, synthVars, procVars>>

SpecQuery ==
    /\ InitQuery
    /\ [][QueryStep]_vars

\* query is one sequential call: an iteration that can be made is made
SpecQueryFair ==
    /\ InitQuery
    /\ [][QueryStep]_vars
    /\ WF_vars(QueryStep)

(***************************************************************************)
(* Properties.                                                             *)
(***************************************************************************)
\* the nodes a graph names, as keys or in a list
NodesOf(graph) == Keys(graph) \cup UNION {Range(graph.deps[k]) : k \in Keys(graph)}

\* no directed cycle: every non-empty set of nodes has a node none of whose
\* dependencies lies in the set
IsAcyclic(graph) ==
    \A S \in SUBSET NodesOf(graph) :
        S # {} => \E n \in S : Range(Get(graph, n)) \cap S = {}

\* C1: whatever the graph (self-loops, mutual cycles, duplicate edges, lists
\* naming nodes that are no keys), the graph returned by remove_cycles, and
\* the one returned by ProcessDetector._remove_cycles, has no cycle:
\* has_cycles answers false on it and it holds no directed cycle.
C1_RemoveCyclesAcyclic ==
    g_pc \in {"remove_cycles", "_remove_cycles"}
        => ~has_cycles(g_out) /\ IsAcyclic(g_out)

\* a graph with a cycle of which remove_cycles kept some edges and dropped others
C1_Witness ==
    /\ g_pc = "remove_cycles"
    /\ has_cycles(g_graph)
    /\ NumEdges(g_out) >= 1
    /\ NumEdges(g_out) < NumEdges(g_graph)

\* the position of node in list, 0 when it is not in it
IndexOf(list, node) ==
    IF node \in Range(list) THEN CHOOSE i \in 1..Len(list) : list[i] = node ELSE 0

\* C2: on an acyclic graph topological_sort returns a list that holds every
\* node of the graph exactly once and every dependency of a node before it.
C2_TopologicalOrder ==
    (g_pc = "topological_sort" /\ IsAcyclic(g_graph))
        => /\ g_out.raised = None
           /\ Len(g_out.result) = Len(g_graph.keys)
           /\ Range(g_out.result) = Keys(g_graph)
           /\ \A n \in Keys(g_graph) : \A d \in Range(g_graph.deps[n]) \cap Keys(g_graph) :
                 IndexOf(g_out.result, d) < IndexOf(g_out.result, n)

\* C3: the automaton of a Process of n steps has n+2 states (state-initial,
\* one per step in step order, state-completed) and n+1 transitions, the
\* i-th from the i-th state to the (i+1)-th.
C3_LinearAutomaton ==
    a_pc = "built" =>
        LET n == Len(a_process.steps)
            states == a_automate.states
            transitions == a_automate.transitions
        IN  /\ Len(states) = n + 2
            /\ states[1].id = StateInitial
            /\ states[n + 2].id = StateCompleted
            /\ \A i \in 1..n :
                  states[i + 1].id = StatePrefix \o sanitize_step_name(a_process.steps[i], a_max)
            /\ Len(transitions) = n + 1
            /\ \A i \in 1..(n + 1) :
                  /\ transitions[i].source = states[i].id
                  /\ transitions[i].target = states[i + 1].id

\* an automaton built from the ten-step Process
C3_Witness ==
    /\ a_pc = "built"
    /\ Len(a_process.steps) = MaxStepsLimit
    /\ Len(a_automate.transitions) = MaxStepsLimit + 1

\* C4: the first transition of an automaton leaves state-initial and carries
\* the automaton's sanitized dependency list; every other transition carries
\* an empty list.
C4_DependenciesOnFirstTransition ==
    a_pc = "built" =>
        LET transitions == a_automate.transitions IN
        /\ transitions[1].source = StateInitial
        /\ transitions[1].automata_dependencies = a_automate.automata_dependencies
        /\ a_automate.automata_dependencies = [i \in 1..Len(a_deps) |-> sanitize(a_deps[i], a_max)]
        /\ \A i \in 2..Len(transitions) : transitions[i].automata_dependencies = <<>>

\* an automaton of several transitions built with a non-empty dependency list
C4_Witness ==
    /\ a_pc = "built"
    /\ a_deps # <<>>
    /\ Len(a_automate.transitions) >= 3
    /\ a_automate.transitions[1].automata_dependencies # <<>>

\* C5: sanitize is idempotent, for every text and every maximum length.
C5_SanitizeIdempotent ==
    s_pc = "twice" => s_out2 = s_out1

\* C6: the map returned by analyze_dependencies has exactly one entry per
\* supplied process id and no other key, whatever the response.
C6_OneEntryPerProcess ==
    pc = "analyzed" =>
        /\ Keys(dependencies) = IdsOf(processes)
        /\ Len(dependencies.keys) = Cardinality(IdsOf(processes))

\* the Process of each structurally valid record, in input order
ValidProcesses(items) ==
    LET valid == SelectSeq(items, IsValidRecord)
    IN  [i \in 1..Len(valid) |-> [id |-> valid[i].id, steps |-> valid[i].steps]]

\* C7: on a decoded response that mixes valid and invalid records,
\* _parse_processes_response does not raise and returns the Process of each
\* structurally valid record, in input order.
C7_PartialSalvage ==
    (pc # "start" /\ response.kind = "array")
        => /\ raised # "ValidationError"
           /\ processes = ValidProcesses(response.items)

\* C8: with cycle detection enabled the automaton-dependency graph of the
\* assembled contract has no cycle and the validator reports none.
C8_ContractAcyclic ==
    cycle_detection =>
        /\ pc = "generated" => ~contract_has_cycles(contract)
        /\ CycleError \notin Range(errors)

\* every dependency id an automaton or one of its transitions lists
ListedIds(automate) ==
    Range(automate.automata_dependencies)
    \cup UNION {Range(automate.transitions[i].automata_dependencies) :
                   i \in 1..Len(automate.transitions)}

\* C9: in the contract assembled from the detected processes and the map of
\* analyze_dependencies, every dependency id an automaton or a transition
\* lists is the id of an automaton of the contract, and
\* validate_dependencies reports nothing.
C9_DependenciesResolve ==
    pc = "generated" =>
        /\ \A i \in 1..Len(contract) : ListedIds(contract[i]) \subseteq AutomateIds(contract)
        /\ validate_dependencies(contract) = <<>>

\* a contract where an automaton depends on the process whose id "A" the
\* sanitizer rewrites
C9_Witness ==
    /\ pc = "generated"
    /\ \E i \in 1..Len(processes) : IdUpperA \in Range(Get(dependencies, processes[i].id))
    /\ \E i \in 1..Len(contract) : IdLowerA \in ListedIds(contract[i])

\* C10: an automaton built from a valid Process has exactly one state whose
\* id is state-initial.
C10_OneInitialState ==
    a_pc = "built" =>
        Cardinality({i \in 1..Len(a_automate.states) :
                        a_automate.states[i].id = StateInitial}) = 1

\* C11: in the automaton from_process builds, every transition starts and
\* ends at the id of a state of that automaton, and validate_structure
\* reports no transition whose source or target state is unknown.
C11_TransitionsReferStates ==
    a_pc = "built" =>
        /\ \A i \in 1..Len(a_automate.transitions) :
               /\ a_automate.transitions[i].source \in StateIds(a_automate)
               /\ a_automate.transitions[i].target \in StateIds(a_automate)
        /\ \A i \in 1..Len(a_automate.transitions) :
               transition_errors(a_automate, a_automate.transitions[i]) = <<>>

\* an automaton of two steps whose labels sanitization rewrites
C11_Witness ==
    /\ a_pc = "built"
    /\ a_process.steps = <<LabelSignOff, LabelCheck>>
    /\ Len(a_automate.transitions) = 3
    /\ a_automate.transitions[2].source # StatePrefix \o LabelSignOff
    /\ a_automate.transitions[2].source \in StateIds(a_automate)

\* C13: whatever the text, the empty text and texts without any letter or
\* digit included, validate_id accepts the result of sanitize: it is not
\* empty, holds only a-z, 0-9 and hyphens, has no hyphen at either end and
\* no two hyphens in a row.
C13_SanitizeGivesValidId ==
    s_pc \in {"once", "twice"} => validate_id(s_out1)

\* C14: on a graph that holds a directed cycle, a self-loop included,
\* topological_sort raises ValueError and returns no ordering.
C14_SortRaisesOnCycle ==
    (g_pc = "topological_sort" /\ ~IsAcyclic(g_graph))
        => g_out.raised = "ValueError" /\ g_out.result = <<>>

\* a graph whose only cycle is a self-loop, and one with a cycle through
\* two nodes beside a node that is on no cycle
C14_Witness ==
    /\ g_pc = "topological_sort"
    /\ g_out.raised = "ValueError"
    /\ \/ \E n \in Keys(g_graph) :
              /\ n \in Range(g_graph.deps[n])
              /\ \A m \in Keys(g_graph) \ {n} : g_graph.deps[m] = <<>>
       \/ /\ Len(g_graph.keys) = 3
          /\ \A n \in Keys(g_graph) : n \notin Range(g_graph.deps[n])
          /\ \E n \in Keys(g_graph) : g_graph.deps[n] = <<>>

\* how often id occurs in list
Count(list, id) == Cardinality({i \in 1..Len(list) : list[i] = id})

\* the list holds, as often as candidates does, the ids of candidates that
\* are known process ids other than owner, and nothing else
IsFilterOf(list, candidates, owner, known) ==
    \A id \in CandidateIds :
        Count(list, id) = IF id \in known /\ id # owner THEN Count(candidates, id) ELSE 0

\* C12 as stated: in the map returned by analyze_dependencies for a decoded
\* response, the list of each process is exactly the filter of its
\* candidates: only known ids other than the owner, and every such candidate.
C12_ReturnedMapIsFilter ==
    (d_pc = "returned" /\ d_response.kind = "object") =>
        \A p \in IdsOf(d_processes) :
            IsFilterOf(d_out.deps[p], d_response.data[p].ids, p, IdsOf(d_processes))

\* C12 amended: the map _parse_dependencies_response builds is exactly the
\* filter of the candidates; the map analyze_dependencies returns lists only
\* known ids other than the owner, is that map when cycle detection is off
\* or the map has no cycle, and otherwise lists no id more often than it.
C12_ParsedMapIsFilter ==
    (d_pc = "returned" /\ d_response.kind = "object") =>
        LET known == IdsOf(d_processes)
        IN  /\ \A p \in known :
                   /\ IsFilterOf(d_parsed.deps[p], d_response.data[p].ids, p, known)
                   /\ Range(d_out.deps[p]) \subseteq known \ {p}
                   /\ \A id \in known : Count(d_out.deps[p], id) <= Count(d_parsed.deps[p], id)
            /\ (~d_detect \/ IsAcyclic(d_parsed)) => d_out = d_parsed

\* a list from which the filter dropped the owner and an unknown id and
\* kept a known one
C12_Witness ==
    /\ d_pc = "returned"
    /\ d_response.kind = "object"
    /\ \E p \in IdsOf(d_processes) :
          /\ Len(d_response.data[p].ids) = 2
          /\ Len(d_out.deps[p]) = 1
          /\ Range(d_response.data[p].ids) \cap {p, IdUnknown} # {}

\* some automaton of the contract depends, through the dependency lists of
\* the automatons, on itself: a non-empty set of automaton ids each of which
\* names an automaton that lists an id of the set
HasDependencyCycle(automates) ==
    \E S \in SUBSET AutomateIds(automates) :
        /\ S # {}
        /\ \A id \in S : \E i \in 1..Len(automates) :
              /\ automates[i].id = id
              /\ Range(automates[i].automata_dependencies) \cap S # {}

\* C15: validate_contract reports every failed check of the contract it is
\* given, not the first only: an automaton without states, one without
\* state-initial, each transition end that is no state of its automaton,
\* each listed dependency id that is no automaton id, a dependency cycle;
\* and its list is empty only when none of them fails.
C15_ValidatorReportsEveryFailure ==
    (pc = "done" \/ (pc = "failed" /\ errors # <<>>)) =>
        /\ \A i \in 1..Len(contract) :
              LET a == contract[i] IN
              /\ a.states = <<>> => <<"no state", a.id>> \in Range(errors)
              /\ StateInitial \notin StateIds(a)
                    => <<"no initial state", a.id>> \in Range(errors)
              /\ \A j \in 1..Len(a.transitions) :
                    /\ a.transitions[j].source \notin StateIds(a)
                          => <<"unknown source state", a.id, a.transitions[j].id>>
                                \in Range(errors)
                    /\ a.transitions[j].target \notin StateIds(a)
                          => <<"unknown target state", a.id, a.transitions[j].id>>
                                \in Range(errors)
              /\ \A d \in Range(a.automata_dependencies) \ AutomateIds(contract) :
                    <<"unknown automate", a.id, d>> \in Range(errors)
        /\ HasDependencyCycle(contract) => CycleError \in Range(errors)
        /\ contract = <<>> => <<"no automate">> \in Range(errors)

\* C17: when the query of detect_processes or of analyze_dependencies
\* raises, nothing is raised to the caller: detection goes on with an empty
\* process list and dependency analysis returns its map.
C17_QueryFailureDegrades ==
    /\ (pc # "start" /\ response = QueryFailed)
          => pc # "failed" /\ raised = None /\ processes = <<>>
    /\ (pc \notin {"start", "detected"} /\ dep_kind = DepQueryFailed.kind)
          => pc # "failed" /\ raised = None

\* C18: save_result is reached only with a contract for which
\* validate_contract returned the empty list, and a contract with a
\* violation ends analyze_contract with an error: no ContractResult is
\* returned for it and nothing is saved.
C18_SavedOnlyIfValid ==
    /\ pc \in {"done", "saved", "save_failed"}
          => validate_contract(contract) = <<>> /\ errors = <<>> /\ raised = None
    /\ errors # <<>> => pc = "failed" /\ raised = "ValueError"

\* a contract of two automatons, one depending on the other, saved
C18_Witness ==
    /\ pc = "saved"
    /\ Len(contract) = 2
    /\ contract[2].automata_dependencies = <<contract[1].id>>
    /\ contract[1].id # contract[2].id

\* C16: analyze_multiple_contracts goes through every document in input
\* order whatever fails on the way, and the list it returns holds, in input
\* order, exactly the documents whose processing did not fail.
C16_BatchReturnsTheSuccessful ==
    b_pc = "finished" =>
        /\ Range(b_results) \cup Range(b_failed) = 1..Len(b_docs)
        /\ \A k \in 1..(Len(b_results) - 1) : b_results[k] < b_results[k + 1]
        /\ Range(b_results) = (1..Len(b_docs)) \ Range(b_failed)

\* opening minus closing brackets of one kind in text[from..to]
Depth(text, open, close, from, to) ==
    Cardinality({j \in from..to : text[j] = open})
    - Cardinality({j \in from..to : text[j] = close})

\* the span from the first opening bracket to the first position from there
\* on at which the depth is back to zero, not found when there is none
FirstBalancedSpan(text, open, close) ==
    LET opens == {i \in 1..Len(text) : text[i] = open}
        first == CHOOSE i \in opens : \A j \in opens : i <= j
        ends  == {i \in first..Len(text) : Depth(text, open, close, first, i) = 0}
        last  == CHOOSE i \in ends : \A j \in ends : i <= j
    IN  IF opens = {} THEN [found |-> FALSE, span |-> <<>>]
        ELSE IF ends = {} THEN [found |-> FALSE, span |-> <<>>]
        ELSE [found |-> TRUE, span |-> SubSeq(text, first, last)]

\* C19: for either bracket pair the extractor returns the text from the
\* first opening bracket to the first later position where the count of
\* opening minus closing brackets of that kind is back to zero, and None
\* exactly when there is no opening bracket or the count never gets there.
C19_ExtractsFirstBalancedSpan ==
    x_pc = "extracted" =>
        x_out = IF x_pair = "array" THEN FirstBalancedSpan(x_text, "[", "]")
                ELSE FirstBalancedSpan(x_text, "{", "}")

\* a span with a nested pair and a bracket of the other kind in it, and a
\* span found behind a closing bracket that opens nothing
C19_Witness ==
    /\ x_pc = "extracted"
    /\ x_out.found
    /\ \/ x_text = <<"{", "{", "}", "}">>
       \/ x_text = <<"[", "[", "]", "]">>
       \/ x_text = <<"]", "[", "}", "]">>

C23_ProcessIdsDistinct ==
    pc # "start" =>
        \A i, j \in 1..Len(processes) : processes[i].id = processes[j].id => i = j

\* C24: has_cycles answers true exactly when the directed graph with an edge
\* from each key to each node of its list holds a directed cycle; lists may
\* name nodes that are no keys, repeat a node, or name their own key.
C24_HasCyclesIffCycle ==
    g_pc = "has_cycles" => (g_out <=> ~IsAcyclic(g_graph))

\* a graph without a cycle in which node 3 is reached a second time after it
\* was fully explored
C24_Witness ==
    /\ g_pc = "has_cycles"
    /\ Len(g_graph.keys) >= 2
    /\ g_graph.deps[1] = <<2, 3>>
    /\ g_graph.deps[2] = <<3>>
    /\ g_out = FALSE

\* the greedy construction: the edges of graph from the j-th dependency of
\* the i-th key on, in key order and list order, each added to built when
\* the graph so obtained holds no directed cycle
RECURSIVE GreedyFrom(_, _, _, _)
GreedyFrom(graph, i, j, built) ==
    IF i > Len(graph.keys) THEN built
    ELSE IF j > Len(graph.deps[graph.keys[i]])
    THEN GreedyFrom(graph, i + 1, 1, built)
    ELSE LET k    == graph.keys[i]
             with == [built EXCEPT !.deps[k] = Append(@, graph.deps[k][j])]
         IN  GreedyFrom(graph, i, j + 1, IF IsAcyclic(with) THEN with ELSE built)

\* sub is list with some of its entries left out
RECURSIVE IsSubsequence(_, _)
IsSubsequence(sub, list) ==
    IF sub = <<>> THEN TRUE
    ELSE IF list = <<>> THEN FALSE
    ELSE IF Head(sub) = Head(list) THEN IsSubsequence(Tail(sub), Tail(list))
    ELSE IsSubsequence(sub, Tail(list))

\* C25: remove_cycles returns the greedy construction over the keys of its
\* input: the same keys in the same order, each list a subsequence of the
\* input list, an edge kept exactly when adding it to the graph built so
\* far closes no cycle.
C25_RemoveCyclesIsGreedy ==
    g_pc = "remove_cycles" =>
        /\ g_out = GreedyFrom(g_graph, 1, 1,
                       [keys |-> g_graph.keys, deps |-> [k \in Keys(g_graph) |-> <<>>]])
        /\ g_out.keys = g_graph.keys
        /\ \A k \in Keys(g_graph) : IsSubsequence(g_out.deps[k], g_graph.deps[k])

\* a list whose first edge is dropped and whose second edge is kept
C25_Witness ==
    /\ g_pc = "remove_cycles"
    /\ Len(g_graph.keys) >= 1
    /\ g_graph.deps[1] = <<1, 2>>
    /\ g_out.deps[1] = <<2>>

\* C27: the graph returned by remove_cycles is a maximal acyclic subgraph of
\* its input: adding any input edge it lacks closes a cycle, and an input
\* without a cycle is returned as it is.
C27_RemoveCyclesMaximal ==
    g_pc = "remove_cycles" =>
        /\ \A k \in Keys(g_graph) : \A dep \in Range(g_graph.deps[k]) :
              dep \notin Range(g_out.deps[k]) =>
                 ~IsAcyclic([g_out EXCEPT !.deps[k] = Append(@, dep)])
        /\ IsAcyclic(g_graph) => g_out = g_graph

\* a mutual dependency of which the second edge is dropped
C27_Witness ==
    /\ g_pc = "remove_cycles"
    /\ Len(g_graph.keys) >= 2
    /\ g_graph.deps[1] = <<2>>
    /\ g_graph.deps[2] = <<1>>
    /\ g_out.deps[1] = <<2>>
    /\ g_out.deps[2] = <<>>

\* C26: the map returned by analyze_dependencies is the same whatever the
\* order in which the set of process ids is iterated: every iteration order
\* gives, for the same process list and the same response, the lists that
\* this run returned.
C26_RetainedEdgesReproducible ==
    d_pc = "returned" =>
        \A order \in Orders(IdsOf(d_processes)) :
            LET parsed == parse_dependencies_response(d_response, d_processes, order)
            IN  parsed.raised = None =>
                   clean_dependencies(parsed.graph, d_detect).deps = d_out.deps

\* C21: the step-count bound applied to a raw record is the configured
\* max_steps_per_process: a record is accepted exactly when it has between
\* 1 and that many steps.
C21_ConfiguredBoundEnforced ==
    /\ p_pc = "built" => Len(p_record) \in 1..p_max
    /\ p_pc = "rejected" => Len(p_record) \notin 1..p_max

\* C22: a Process that was built holds between 1 and 10 steps, whatever
\* add_step and remove_step calls were made on it.
C22_StepCountKept ==
    p_pc = "built" => Len(p_steps) \in 1..MaxStepsLimit

\* C28: on a Process that was built, whatever add_step and remove_step
\* calls were made, detailed_steps is as long as steps and its i-th entry
\* has the name steps[i], the order i (from 0) and the id "step-<i+1>".
C28_DetailedStepsAligned ==
    p_pc = "built" =>
        /\ Len(p_detailed) = Len(p_steps)
        /\ \A i \in 1..Len(p_detailed) :
              /\ i <= Len(p_steps) => p_detailed[i].name = p_steps[i]
              /\ p_detailed[i].order = i - 1
              /\ p_detailed[i].id = StepId(i)

AIProviderErrors ==
    {"AIProviderError", "AIConnectionError", "AIRateLimitError", "AIResponseError"}

\* at most max_retries requests; none after an answered one; query returns
\* exactly when the last request was answered with a text; what it raises
\* is an AIProviderError
QueryBounded ==
    /\ Len(q_log) <= MaxRetries
    /\ \A k \in 1..(Len(q_log) - 1) : q_log[k] # OutcomeText
    /\ q_pc = "returned" <=> (q_log # <<>> /\ q_log[Len(q_log)] = OutcomeText)
    /\ q_pc = "returned" => q_result = OutcomeText
    /\ q_pc = "raised" => q_raised \in AIProviderErrors

\* C29: every call of query ends, after at most max_retries requests
\* whatever their outcomes: it returns the text of the first answered
\* request and makes no further one, or it raises AIProviderError or a
\* subclass of it.
C29_QueryTerminates ==
    []QueryBounded /\ <>(q_pc \in {"returned", "raised"})

\* two failed requests, then an answered one: query returns on the third
C29_Witness ==
    /\ q_pc = "returned"
    /\ Len(q_log) = MaxRetries
    /\ q_log[1] = OutcomeConnection
    /\ q_log[2] = OutcomeBlank

\* C30: a request answered with status 404 is the last request of the call,
\* which raises AIProviderError; a request is followed by another only when
\* it ended in a connection error or a timeout.
C30_NotFoundEndsQuery ==
    \A k \in 1..Len(q_log) :
        /\ q_log[k] = OutcomeNotFound =>
              k = Len(q_log) /\ q_pc = "raised" /\ q_raised = "AIProviderError"
        /\ k < Len(q_log) => q_log[k] \in {OutcomeConnection, OutcomeTimeout}

====
